---- MODULE Spec2Model ----
(***************************************************************************)
(* The opencode log viewer.                                                *)
(* Spec / FairSpec: the line-level diff engine; computeLineDiff is         *)
(* modelled step by step (table fill loops, backtracking loop, reverse).   *)
(* ViewSpec: one displayed message, the extraction of its diffs and the    *)
(* diff toggle buttons of its tool parts.                                  *)
(* RenderSpec: TimelineRenderer.render and updateIncremental called with   *)
(* arbitrary message lists.                                                *)
(* SessionSpec: loadSession, the live-update subscription of               *)
(* OpencodeClient, the reload timer and saveSettings, interleaved at the   *)
(* awaits.                                                                 *)
(***************************************************************************)
EXTENDS Integers, Sequences, FiniteSets, Bags, TLC

\* Longest input sequence (in lines) given to computeLineDiff.
MaxLen == 3

\* The line texts the inputs are drawn from (result of split('\n')).
LineTexts == {"a", "b", "x"}

RECURSIVE SeqsUpTo(_)
SeqsUpTo(k) ==
  IF k = 0 THEN {<<>>}
  ELSE LET shorter == SeqsUpTo(k - 1)
       IN  shorter \cup {Append(s, t) : s \in {u \in shorter : Len(u) = k - 1}, t \in LineTexts}

LineSeqs == SeqsUpTo(MaxLen)

\* Longest oldString / newString (in characters) of a tool part.
MaxTextLen == 1

\* A JavaScript string is the sequence of its characters.
Chars == {"a", "\n"}

RECURSIVE StringsUpTo(_)
StringsUpTo(k) ==
  IF k = 0 THEN {<<>>}
  ELSE LET shorter == StringsUpTo(k - 1)
       IN  shorter \cup {Append(s, c) : s \in {u \in shorter : Len(u) = k - 1}, c \in Chars}

\* The value of a property that is absent; it differs from every string.
Undefined == <<"undefined">>

TextVals == {Undefined} \cup StringsUpTo(MaxTextLen)

ToolNames == {"edit", "bash"}

FilePath == "src/app.js"

TextPart ==
  [type |-> "text", tool |-> "", oldString |-> Undefined, newString |-> Undefined,
   filePath |-> FilePath, filediff |-> FALSE]

\* Tool parts: state.input.oldString / newString present or not, and tool
\* parts whose texts are carried in state.metadata.filediff only.
ToolParts ==
  {[type |-> "tool", tool |-> t, oldString |-> o, newString |-> w,
    filePath |-> FilePath, filediff |-> FALSE] : t \in ToolNames, o \in TextVals, w \in TextVals}
  \cup {[type |-> "tool", tool |-> "edit", oldString |-> Undefined, newString |-> Undefined,
         filePath |-> FilePath, filediff |-> TRUE]}

PartChoices == {TextPart} \cup ToolParts

PartCounts == {1, 2}

\* The message lists the API returns for the displayed session.
ViewMessageLists ==
  {<<[id |-> "m1", parts |-> ps]>> : ps \in UNION {[1..k -> PartChoices] : k \in PartCounts}}

VARIABLES
  beforeLines,  \* argument beforeLines
  afterLines,   \* argument afterLines
  dp,           \* the (m+1) x (n+1) table, dp[r][c] with r in 0..m, c in 0..n
  fi, fj,       \* loop counters i, j of the two nested table-fill loops
  i, j,         \* loop counters i, j of the backtracking loop
  lcs,          \* the array the backtracking loop pushes to
  diff,         \* the returned array (lcs.reverse())
  pc,           \* "fill", "backtrack" or "done"; "idle" when no handler runs
  apiMessages,      \* the messages the server returns for the session
  currentMessages,  \* let currentMessages
  currentPatches,   \* let currentPatches
  timelineDom,      \* the .message elements of #timeline, each with its children
  renderedMessageIds, \* TimelineRenderer.renderedMessageIds
  rendererLog,      \* the last call of the renderer: its arguments and whether it scrolled
  call,             \* the toggle click that is waiting for computeLineDiff
  client,           \* let client: the OpencodeClient in use (clients are numbered)
  eventSource,      \* this.eventSource of every client: an EventSource id, 0 for null
  openSources,      \* the EventSource objects that are open
  currentSessionId, \* let currentSessionId
  unsubscribe,      \* let unsubscribe: the client the closure belongs to, 0 for null
  reloadTimeout,    \* let reloadTimeout: TRUE when it holds a timer id
  timers,           \* the timers of scheduleReload the browser has pending
  loads,            \* the loadSession calls waiting at an await
  reloads,          \* the reloadCurrentSession calls waiting at an await
  delivered,        \* the last event an EventSource handed to onmessage
  timersSet,        \* how many times scheduleReload called setTimeout
  reloadCalls,      \* how many times a timer called reloadCurrentSession
  loadCompleted     \* a loadSession of the selected session has subscribed since the selection

diffVars == <<beforeLines, afterLines, dp, fi, fj, i, j, lcs, diff, pc>>

viewVars == <<apiMessages, currentMessages, currentPatches, timelineDom, renderedMessageIds, rendererLog, call>>

sessVars == <<client, eventSource, openSources, currentSessionId, unsubscribe, reloadTimeout,
              timers, loads, reloads, delivered, timersSet, reloadCalls, loadCompleted>>

appVars == <<viewVars, sessVars>>

vars == <<diffVars, appVars>>

NoCall == [active |-> FALSE]

NoRendererCall == [op |-> "none", messages |-> <<>>, scrolled |-> FALSE]

\* The OpencodeClient in use and the one saveSettings replaces it with. The
\* page keeps no reference to a replaced client, so its number is used again
\* for the client after the next.
ClientIds == {1, 2}

\* currentSessionId = null
NoSession == "null"

\* The log of a delivery: whether the event was a session.updated event that
\* arrived while a session was selected, whether it was an event of the
\* session subscribed to or of the session selected, and whether setTimeout
\* was called.
NoDelivery == [relevant |-> FALSE, own |-> TRUE, scheduled |-> FALSE]

\* The module-level state of app.js and a fresh OpencodeClient.
SessIdle ==
  /\ client = 1
  /\ eventSource = [c \in ClientIds |-> 0]
  /\ openSources = {}
  /\ currentSessionId = NoSession
  /\ unsubscribe = 0
  /\ reloadTimeout = FALSE
  /\ timers = 0
  /\ loads = EmptyBag
  /\ reloads = EmptyBag
  /\ delivered = NoDelivery
  /\ timersSet = 0
  /\ reloadCalls = 0
  /\ loadCompleted = FALSE

\* The page before any session is displayed.
AppIdle ==
  /\ SessIdle
  /\ apiMessages = <<>>
  /\ currentMessages = <<>>
  /\ currentPatches = <<>>
  /\ timelineDom = <<>>
  /\ renderedMessageIds = {}
  /\ rendererLog = NoRendererCall
  /\ call = NoCall

m == Len(beforeLines)
n == Len(afterLines)

Max(x, y) == IF x >= y THEN x ELSE y

ReverseNone(s) == s

Reverse(s) == [k \in 1..Len(s) |-> s[Len(s) - k + 1]]

\* beforeLines[r - 1] === afterLines[c - 1]  (0-based in the source)
LinesMatch(r, c) == beforeLines[r] = afterLines[c]

DpMatch(r, c) == dp[r - 1][c - 1] + 1

DpMismatchMin(r, c) == IF dp[r - 1][c] <= dp[r][c - 1] THEN dp[r - 1][c] ELSE dp[r][c - 1]

DpMismatch(r, c) == Max(dp[r - 1][c], dp[r][c - 1])

EqualOpSwapped(r, c) == [type |-> "equal", line |-> beforeLines[r], oldLineNum |-> c, newLineNum |-> r]

EqualOpZeroBased(r, c) == [type |-> "equal", line |-> beforeLines[r], oldLineNum |-> r - 1, newLineNum |-> c - 1]

EqualOp(r, c) == [type |-> "equal", line |-> beforeLines[r], oldLineNum |-> r, newLineNum |-> c]

AddedOpNextLine(c) ==
  [type |-> "added", line |-> IF c + 1 <= n THEN afterLines[c + 1] ELSE "undefined", newLineNum |-> c]

AddedOpZeroBased(c) == [type |-> "added", line |-> afterLines[c], newLineNum |-> c - 1]

AddedOp(c) == [type |-> "added", line |-> afterLines[c], newLineNum |-> c]

DeletedOpNewNum(r) == [type |-> "deleted", line |-> beforeLines[r], newLineNum |-> r]

DeletedOpZeroBased(r) == [type |-> "deleted", line |-> beforeLines[r], oldLineNum |-> r - 1]

DeletedOp(r) == [type |-> "deleted", line |-> beforeLines[r], oldLineNum |-> r]

TakesEqual == i > 0 /\ j > 0 /\ LinesMatch(i, j)

TakesAddedReversed == j > 0 /\ (IF i = 0 THEN TRUE ELSE dp[i][j - 1] <= dp[i - 1][j])

TakesAddedStrict == j > 0 /\ (IF i = 0 THEN TRUE ELSE dp[i][j - 1] > dp[i - 1][j])

\* j > 0 && (i === 0 || dp[i][j - 1] >= dp[i - 1][j]); || short-circuits.
TakesAdded == j > 0 /\ (IF i = 0 THEN TRUE ELSE dp[i][j - 1] >= dp[i - 1][j])

TakesDeletedOffByOne == i > 1

TakesDeleted == i > 0

Init ==
  /\ beforeLines \in LineSeqs
  /\ afterLines \in LineSeqs
  /\ dp = [r \in 0..Len(beforeLines) |-> [c \in 0..Len(afterLines) |-> 0]]
  /\ fi = 1
  /\ fj = 1
  /\ i = 0
  /\ j = 0
  /\ lcs = <<>>
  /\ diff = <<>>
  /\ pc = "fill"
  /\ AppIdle

FillMatch ==
  /\ pc = "fill"
  /\ fi <= m
  /\ fj <= n
  /\ LinesMatch(fi, fj)
  /\ dp' = [dp EXCEPT ![fi][fj] = DpMatch(fi, fj)]
  /\ fj' = fj + 1
  /\ UNCHANGED <<beforeLines, afterLines, fi, i, j, lcs, diff, pc>>
  /\ UNCHANGED appVars

FillMismatch ==
  /\ pc = "fill"
  /\ fi <= m
  /\ fj <= n
  /\ ~LinesMatch(fi, fj)
  /\ dp' = [dp EXCEPT ![fi][fj] = DpMismatch(fi, fj)]
  /\ fj' = fj + 1
  /\ UNCHANGED <<beforeLines, afterLines, fi, i, j, lcs, diff, pc>>
  /\ UNCHANGED appVars

FillNextRow ==
  /\ pc = "fill"
  /\ fi <= m
  /\ fj > n
  /\ fi' = fi + 1
  /\ fj' = 1
  /\ UNCHANGED <<beforeLines, afterLines, dp, i, j, lcs, diff, pc>>
  /\ UNCHANGED appVars

StartBacktrack ==
  /\ pc = "fill"
  /\ fi > m
  /\ i' = m
  /\ j' = n
  /\ lcs' = <<>>
  /\ pc' = "backtrack"
  /\ UNCHANGED <<beforeLines, afterLines, dp, fi, fj, diff>>
  /\ UNCHANGED appVars

BacktrackEqual ==
  /\ pc = "backtrack"
  /\ i > 0 \/ j > 0
  /\ TakesEqual
  /\ lcs' = Append(lcs, EqualOp(i, j))
  /\ i' = i - 1
  /\ j' = j - 1
  /\ UNCHANGED <<beforeLines, afterLines, dp, fi, fj, diff, pc>>
  /\ UNCHANGED appVars

BacktrackAdded ==
  /\ pc = "backtrack"
  /\ i > 0 \/ j > 0
  /\ ~TakesEqual
  /\ TakesAdded
  /\ lcs' = Append(lcs, AddedOp(j))
  /\ j' = j - 1
  /\ UNCHANGED <<beforeLines, afterLines, dp, fi, fj, i, diff, pc>>
  /\ UNCHANGED appVars

BacktrackDeleted ==
  /\ pc = "backtrack"
  /\ i > 0 \/ j > 0
  /\ ~TakesEqual
  /\ ~TakesAdded
  /\ TakesDeleted
  /\ lcs' = Append(lcs, DeletedOp(i))
  /\ i' = i - 1
  /\ UNCHANGED <<beforeLines, afterLines, dp, fi, fj, j, diff, pc>>
  /\ UNCHANGED appVars

Return ==
  /\ pc = "backtrack"
  /\ ~(i > 0 \/ j > 0)
  /\ diff' = Reverse(lcs)
  /\ pc' = "done"
  /\ UNCHANGED <<beforeLines, afterLines, dp, fi, fj, i, j, lcs>>
  /\ UNCHANGED appVars

Next ==
  \/ FillMatch
  \/ FillMismatch
  \/ FillNextRow
  \/ StartBacktrack
  \/ BacktrackEqual
  \/ BacktrackAdded
  \/ BacktrackDeleted
  \/ Return

Spec == Init /\ [][Next]_vars

\* The function runs to completion once called: JavaScript executes it
\* synchronously, so a step that can be taken is taken.
FairSpec == Spec /\ WF_vars(Next)

(***************************************************************************)
(* The displayed session: extraction of the diffs, rendering of the        *)
(* timeline and the diff toggle buttons.                                   *)
(***************************************************************************)

\* x || ''  for x a string or undefined
OrEmpty(x) == IF x = Undefined \/ x = <<>> THEN <<>> ELSE x

\* s.split('\n')
RECURSIVE Split(_)
Split(s) ==
  IF \A k \in 1..Len(s) : s[k] # "\n" THEN <<s>>
  ELSE LET k == CHOOSE q \in 1..Len(s) : s[q] = "\n" /\ \A r \in 1..q - 1 : s[r] # "\n"
       IN  <<SubSeq(s, 1, k - 1)>> \o Split(SubSeq(s, k + 1, Len(s)))

HasEditInputBoth(part) == part.oldString # Undefined /\ part.newString # Undefined

\* input.oldString !== undefined || input.newString !== undefined
HasEditInput(part) == part.oldString # Undefined \/ part.newString # Undefined

\* oldStr || newStr  (both already defaulted to '')
HasContent(oldStr, newStr) == oldStr # <<>> \/ newStr # <<>>

\* The entry pushed for a tool part; patchIndex++ numbers the entries 0, 1, ..
DiffEntry(patchIndex, msgIndex, part) ==
  [patchIndex |-> patchIndex, msgIndex |-> msgIndex, file |-> part.filePath]

\* Whether the part makes extractDiffsFromMessages push an entry.
PushesEntry(part) ==
  /\ part.type = "tool"
  /\ HasEditInput(part)
  /\ HasContent(OrEmpty(part.oldString), OrEmpty(part.newString))

\* parts.forEach of message msgIndex (0-based), from the k-th part on
RECURSIVE ExtractParts(_, _, _, _)
ExtractParts(parts, msgIndex, k, diffs) ==
  IF k > Len(parts) THEN diffs
  ELSE ExtractParts(parts, msgIndex, k + 1,
         IF PushesEntry(parts[k])
           THEN Append(diffs, DiffEntry(Len(diffs), msgIndex, parts[k]))
           ELSE diffs)

\* messages.forEach, from the k-th message on
RECURSIVE ExtractMessages(_, _, _)
ExtractMessages(messages, k, diffs) ==
  IF k > Len(messages) THEN diffs
  ELSE ExtractMessages(messages, k + 1, ExtractParts(messages[k].parts, k - 1, 1, diffs))

extractDiffsFromMessages(messages) == ExtractMessages(messages, 1, <<>>)

\* name === 'edit' || name === 'write'
IsEditTool(name) == name = "edit" \/ name = "write"

HasDiffToggleAnyEdit(part) == IsEditTool(part.tool)

\* hasDiff of renderToolPart: the part gets a .diff-toggle-btn
HasDiffToggle(part) == IsEditTool(part.tool) /\ HasEditInput(part)

\* The element of a part; partIndex is 0-based as in the data attributes.
renderPart(part, messageIndex, partIndex) ==
  IF part.type = "tool"
    THEN [cls |-> "part-tool", msgIndex |-> messageIndex, partIndex |-> partIndex,
          toggle |-> HasDiffToggle(part), expanded |-> FALSE]
    ELSE [cls |-> "part-text", msgIndex |-> messageIndex, partIndex |-> partIndex,
          toggle |-> FALSE, expanded |-> FALSE]

renderParts(parts, messageIndex) ==
  IF Len(parts) = 0
    THEN <<[cls |-> "part-text", msgIndex |-> messageIndex, partIndex |-> 0,
            toggle |-> FALSE, expanded |-> FALSE]>>
    ELSE [k \in 1..Len(parts) |-> renderPart(parts[k], messageIndex, k - 1)]

\* A message without id has id "" (falsy); div.dataset.messageId is then
\* Date.now().
renderMessage(msg, isNew, messageIndex) ==
  [messageId |-> IF msg.id # "" THEN msg.id ELSE "Date.now()",
   isNew |-> isNew,
   children |-> renderParts(msg.parts, messageIndex)]

RenderedIdByIndex(msg, index) == "msg-" \o ToString(index)

\* const id = msg.info?.id || msg.id || `msg-${index}`  (index 0-based)
RenderedId(msg, index) == IF msg.id # "" THEN msg.id ELSE "msg-" \o ToString(index)

\* The argument of a renderer call that is null or not an array.
NotAnArray == <<[null |-> TRUE]>>

\* !messages || !Array.isArray(messages)
IsNoArray(messages) == messages = NotAnArray

HasValidMessage(messages) == \E k \in 1..Len(messages) : Len(messages[k].parts) > 0

\* TimelineRenderer.render(messages): the empty state (renderEmpty) replaces
\* the container content and leaves renderedMessageIds as it is; it does
\* not scroll.
TimelineRender(messages) ==
  IF IsNoArray(messages) \/ ~HasValidMessage(messages)
    THEN /\ timelineDom' = <<>>
         /\ UNCHANGED renderedMessageIds
         /\ rendererLog' = [op |-> "render", messages |-> messages, scrolled |-> FALSE]
    ELSE /\ timelineDom' = [k \in 1..Len(messages) |-> renderMessage(messages[k], FALSE, k - 1)]
         /\ renderedMessageIds' = {RenderedId(messages[k], k - 1) : k \in 1..Len(messages)}
         /\ rendererLog' = [op |-> "render", messages |-> messages, scrolled |-> TRUE]

\* The forEach of updateIncremental from the k-th message on: acc holds the
\* container content, the rendered ids and newMessageAdded.
RECURSIVE AppendNew(_, _, _)
AppendNew(messages, k, acc) ==
  IF k > Len(messages) THEN acc
  ELSE LET msg == messages[k]
           id == RenderedId(msg, k - 1)
       IN  IF Len(msg.parts) = 0 \/ id \in acc.ids
             THEN AppendNew(messages, k + 1, acc)
             ELSE AppendNew(messages, k + 1,
                    [dom |-> Append(acc.dom, renderMessage(msg, TRUE, k - 1)),
                     ids |-> acc.ids \cup {id},
                     added |-> TRUE])

\* TimelineRenderer.updateIncremental(messages)
TimelineUpdateIncremental(messages) ==
  IF IsNoArray(messages) \/ Len(messages) = 0
    THEN /\ UNCHANGED <<timelineDom, renderedMessageIds>>
         /\ rendererLog' = [op |-> "updateIncremental", messages |-> messages, scrolled |-> FALSE]
    ELSE LET res == AppendNew(messages, 1, [dom |-> timelineDom, ids |-> renderedMessageIds, added |-> FALSE])
         IN  /\ timelineDom' = res.dom
             /\ renderedMessageIds' = res.ids
             /\ rendererLog' = [op |-> "updateIncremental", messages |-> messages, scrolled |-> res.added]

\* displaySession / reloadCurrentSession once the messages have arrived.
DisplaySession ==
  /\ pc = "idle"
  /\ currentMessages' = apiMessages
  /\ TimelineRender(apiMessages)
  /\ currentPatches' = extractDiffsFromMessages(apiMessages)
  /\ UNCHANGED <<diffVars, apiMessages, call, sessVars>>

\* The locals of computeLineDiff when no call is running.
DiffIdle ==
  /\ beforeLines = <<>>
  /\ afterLines = <<>>
  /\ dp = [r \in 0..0 |-> [c \in 0..0 |-> 0]]
  /\ fi = 1
  /\ fj = 1
  /\ i = 0
  /\ j = 0
  /\ lcs = <<>>
  /\ diff = <<>>

\* computeLineDiff's locals go out of scope when the handler ends.
DiscardLocals ==
  /\ beforeLines' = <<>>
  /\ afterLines' = <<>>
  /\ dp' = [r \in 0..0 |-> [c \in 0..0 |-> 0]]
  /\ fi' = 1
  /\ fj' = 1
  /\ i' = 0
  /\ j' = 0
  /\ lcs' = <<>>
  /\ diff' = <<>>

\* The session whose messages the server returns is about to be displayed.
ViewInit ==
  /\ DiffIdle
  /\ SessIdle
  /\ pc = "idle"
  /\ apiMessages \in ViewMessageLists
  /\ currentMessages = <<>>
  /\ currentPatches = <<>>
  /\ timelineDom = <<>>
  /\ renderedMessageIds = {}
  /\ rendererLog = NoRendererCall
  /\ call = NoCall

Indices(seq) == [k \in 1..Len(seq) |-> k]

\* messageEl.querySelectorAll('.part-tool'): the positions of the matching
\* children in document order
ToolPartPositions(children) ==
  SelectSeq(Indices(children), LAMBDA k : children[k].cls = "part-tool")

ExistingDiffNone(children, diffId) == 0

\* messageEl.querySelector('.timeline-diff-inline[data-patch-index=diffId]'):
\* the position of the first match, 0 for null
ExistingDiff(children, diffId) ==
  LET found == SelectSeq(Indices(children),
                 LAMBDA k : children[k].cls = "timeline-diff-inline" /\ children[k].patchIndex = diffId)
  IN  IF found = <<>> THEN 0 ELSE found[1]

\* currentMessages.find(m => (m.info?.id || m.id) === domMsgId): position or 0
FindMessage(domMsgId) ==
  LET found == SelectSeq(Indices(currentMessages), LAMBDA k : currentMessages[k].id = domMsgId)
  IN  IF found = <<>> THEN 0 ELSE found[1]

\* editToolParts: { part, index } for the tool parts with an edit input
EditToolParts(parts) ==
  LET all == [k \in 1..Len(parts) |-> [part |-> parts[k], index |-> k - 1]]
  IN  SelectSeq(all, LAMBDA d : d.part.type = "tool" /\ HasEditInput(d.part))

\* editToolParts[partIndex] || editToolParts[0]
ToolData(editToolParts, partIndex) ==
  IF partIndex + 1 \in 1..Len(editToolParts)
    THEN editToolParts[partIndex + 1]
    ELSE editToolParts[1]

\* The patch toggleDiffInTimeline builds from the chosen tool part.
Patch(toolPart, msgIndex) ==
  LET oldStr == OrEmpty(toolPart.oldString)
      newStr == OrEmpty(toolPart.newString)
      additions == Len(Split(newStr)) - Len(Split(oldStr))
  IN  [msgIndex |-> msgIndex,
       file |-> toolPart.filePath,
       before |-> oldStr,
       after |-> newStr,
       additions |-> IF additions > 0 THEN additions ELSE 0,
       deletions |-> IF additions < 0 THEN 0 - additions ELSE 0]

\* !before && !after of renderInlineDiff: 'Contenu non disponible'
ContentUnavailable(patch) == patch.before = <<>> /\ patch.after = <<>>

\* The .timeline-diff-inline element; source is the index (toolData.index) of
\* the part the patch was built from and button the data-part-index of the
\* clicked button, both kept for the properties only.
DiffContainer(diffId, patch, available, ops, source, button) ==
  [cls |-> "timeline-diff-inline", patchIndex |-> diffId, hidden |-> FALSE,
   file |-> patch.file, additions |-> patch.additions, deletions |-> patch.deletions,
   available |-> available, ops |-> ops, source |-> source, button |-> button]

InsertAfter(children, k, el) ==
  SubSeq(children, 1, k) \o <<el>> \o SubSeq(children, k + 1, Len(children))

\* The .part-tool the container goes after: toolParts[partIndex] when
\* partIndex is in range, the last one otherwise; 0 when there is none.
TargetToolPart(children, partIndex) ==
  LET toolParts == ToolPartPositions(children)
  IN  IF Len(toolParts) = 0 THEN 0
      ELSE IF partIndex >= 0 /\ partIndex < Len(toolParts) THEN toolParts[partIndex + 1]
      ELSE toolParts[Len(toolParts)]

\* The end of addDiffToMessage when the container is new: it is inserted
\* after the target tool part and the clicked button gets 'expanded'.
\* msgPos is the position of messageEl, (btnMsg, btnChild) of the button.
InsertNewDiff(dom, msgPos, partIndex, btnMsg, btnChild, container) ==
  LET target == TargetToolPart(dom[msgPos].children, partIndex)
  IN  IF target = 0 THEN dom
      ELSE LET expanded == [dom EXCEPT ![btnMsg].children[btnChild].expanded = TRUE]
           IN  [expanded EXCEPT ![msgPos].children =
                  InsertAfter(expanded[msgPos].children, target, container)]

\* existingDiff.classList.toggle('hidden'); toggleBtn.classList.toggle('expanded')
ToggleExisting(dom, msgPos, existing, btnMsg, btnChild) ==
  [dom EXCEPT ![msgPos].children[existing].hidden = ~@,
              ![btnMsg].children[btnChild].expanded = ~@]

\* The call computeLineDiff(beforeLines, afterLines) of renderInlineDiff.
CallComputeLineDiff(before, after) ==
  /\ beforeLines' = Split(before)
  /\ afterLines' = Split(after)
  /\ dp' = [r \in 0..Len(Split(before)) |-> [c \in 0..Len(Split(after)) |-> 0]]
  /\ fi' = 1
  /\ fj' = 1
  /\ i' = 0
  /\ j' = 0
  /\ lcs' = <<>>
  /\ diff' = <<>>
  /\ pc' = "fill"

\* A click on the .diff-toggle-btn of child btnChild of message element
\* btnMsg: the click listener, toggleDiffInTimeline and addDiffToMessage up
\* to the call of computeLineDiff (or to the end when it is not called).
ClickToggle(btnMsg, btnChild) ==
  /\ pc = "idle"
  /\ timelineDom[btnMsg].children[btnChild].cls = "part-tool"
  /\ timelineDom[btnMsg].children[btnChild].toggle
  /\ LET btn == timelineDom[btnMsg].children[btnChild]
         msgIndex == btn.msgIndex
         partIndex == btn.partIndex
         msgPos == msgIndex + 1
         hasMessageEl == msgPos \in 1..Len(timelineDom)
         dataPos == IF hasMessageEl THEN FindMessage(timelineDom[msgPos].messageId) ELSE 0
         editToolParts == IF dataPos = 0 THEN <<>> ELSE EditToolParts(currentMessages[dataPos].parts)
     IN  IF ~hasMessageEl \/ dataPos = 0 \/ Len(editToolParts) = 0
           THEN UNCHANGED <<diffVars, timelineDom, call>>
           ELSE LET toolData == ToolData(editToolParts, partIndex)
                    patch == Patch(toolData.part, msgIndex)
                    diffId == msgIndex
                    existing == ExistingDiff(timelineDom[msgPos].children, diffId)
                IN  IF existing # 0
                      THEN /\ timelineDom' = ToggleExisting(timelineDom, msgPos, existing, btnMsg, btnChild)
                           /\ UNCHANGED <<diffVars, call>>
                    ELSE IF ContentUnavailable(patch)
                      THEN /\ timelineDom' = InsertNewDiff(timelineDom, msgPos, partIndex, btnMsg, btnChild,
                                               DiffContainer(diffId, patch, FALSE, <<>>, toolData.index, partIndex))
                           /\ UNCHANGED <<diffVars, call>>
                    ELSE /\ CallComputeLineDiff(patch.before, patch.after)
                         /\ call' = [active |-> TRUE, msgPos |-> msgPos, partIndex |-> partIndex,
                                     btnMsg |-> btnMsg, btnChild |-> btnChild, diffId |-> diffId,
                                     patch |-> patch, source |-> toolData.index]
                         /\ UNCHANGED timelineDom
  /\ UNCHANGED <<apiMessages, currentMessages, currentPatches, renderedMessageIds, rendererLog, sessVars>>

\* computeLineDiff has returned to renderInlineDiff: the rest of
\* addDiffToMessage inserts the container that shows the ops.
FinishToggle ==
  /\ pc = "done"
  /\ call.active
  /\ timelineDom' = InsertNewDiff(timelineDom, call.msgPos, call.partIndex, call.btnMsg, call.btnChild,
                      DiffContainer(call.diffId, call.patch, TRUE, diff, call.source, call.partIndex))
  /\ call' = NoCall
  /\ pc' = "idle"
  /\ DiscardLocals
  /\ UNCHANGED <<apiMessages, currentMessages, currentPatches, renderedMessageIds, rendererLog, sessVars>>

ViewNext ==
  \/ DisplaySession
  \/ \E btnMsg \in 1..Len(timelineDom) :
       \E btnChild \in 1..Len(timelineDom[btnMsg].children) : ClickToggle(btnMsg, btnChild)
  \/ FinishToggle
  \/ FillMatch
  \/ FillMismatch
  \/ FillNextRow
  \/ StartBacktrack
  \/ BacktrackEqual
  \/ BacktrackAdded
  \/ BacktrackDeleted
  \/ Return

ViewSpec == ViewInit /\ [][ViewNext]_vars

(***************************************************************************)
(* Messages with two edit tool parts after a first part.                   *)
(***************************************************************************)

\* A tool part that is no edit: no oldString / newString.
BashPart ==
  [type |-> "tool", tool |-> "bash", oldString |-> Undefined, newString |-> Undefined,
   filePath |-> FilePath, filediff |-> FALSE]

\* The edit tool parts that get a toggle button.
EditParts == {part \in ToolParts : HasDiffToggle(part)}

ToggleMessageLists ==
  {<<[id |-> "m1", parts |-> <<first, e1, e2>>]>> :
     first \in {TextPart, BashPart}, e1 \in EditParts, e2 \in EditParts}

ToggleInit ==
  /\ DiffIdle
  /\ SessIdle
  /\ pc = "idle"
  /\ apiMessages \in ToggleMessageLists
  /\ currentMessages = <<>>
  /\ currentPatches = <<>>
  /\ timelineDom = <<>>
  /\ renderedMessageIds = {}
  /\ rendererLog = NoRendererCall
  /\ call = NoCall

ToggleSpec == ToggleInit /\ [][ViewNext]_vars

(***************************************************************************)
(* The renderer on its own.                                                *)
(***************************************************************************)

\* Longest message list handed to the renderer.
MaxMsgs == 2

MsgIds == {"m1", "m2", "m3"}

\* A message either has no parts yet or one text part.
RenderMessages == {[id |-> d, parts |-> ps] : d \in MsgIds, ps \in {<<>>, <<TextPart>>}}

\* The lists of the API carry each message id once.
RenderMessageLists ==
  {ms \in UNION {[1..k -> RenderMessages] : k \in 0..MaxMsgs} :
     \A a, b \in 1..Len(ms) : a # b => ms[a].id # ms[b].id}
  \cup {NotAnArray}

RenderInit == DiffIdle /\ pc = "idle" /\ AppIdle

Render(messages) ==
  /\ pc = "idle"
  /\ TimelineRender(messages)
  /\ UNCHANGED <<diffVars, apiMessages, currentMessages, currentPatches, call, sessVars>>

UpdateIncremental(messages) ==
  /\ pc = "idle"
  /\ TimelineUpdateIncremental(messages)
  /\ UNCHANGED <<diffVars, apiMessages, currentMessages, currentPatches, call, sessVars>>

RenderNext ==
  \/ \E messages \in RenderMessageLists : Render(messages)
  \/ \E messages \in RenderMessageLists : UpdateIncremental(messages)

RenderSpec == RenderInit /\ [][RenderNext]_vars

\* The renderer fed with messages that have no parts yet or one tool part.
ToolMessages == {[id |-> d, parts |-> ps] : d \in MsgIds, ps \in {<<>>, <<BashPart>>}}

ToolMessageLists ==
  {ms \in UNION {[1..k -> ToolMessages] : k \in 0..MaxMsgs} :
     \A a, b \in 1..Len(ms) : a # b => ms[a].id # ms[b].id}
  \cup {NotAnArray}

IndexNext ==
  \/ \E messages \in ToolMessageLists : Render(messages)
  \/ \E messages \in ToolMessageLists : UpdateIncremental(messages)

IndexSpec == RenderInit /\ [][IndexNext]_vars

(***************************************************************************)
(* Sessions: loadSession, the subscription, the reload timer, saveSettings *)
(***************************************************************************)

\* Most loadSession calls waiting at an await at one time.
MaxInFlight == 2

\* Most timers set by scheduleReload in one run.
MaxTimers == 2

Sessions == {"s1", "s2"}

\* The events of the server's /event stream, after JSON.parse.
EventTypes == {"session.updated", "message.updated"}

Events == [type : EventTypes, sessionID : Sessions]

\* The message lists GET /session/:id/message answers with: the messages
\* of that session.
ApiResponses(sessionId) == {<<[id |-> sessionId \o "-m1", parts |-> <<TextPart>>]>>}

\* Ids for EventSource objects; the id of a closed object that no client
\* refers to is used again.
SourceIds == 1..(Cardinality(ClientIds) + 1)

\* The EventSource fields of the clients and the open EventSource objects.
Net == [field |-> eventSource, open |-> openSources]

\* closeEventSource() of client c; the closure returned by
\* subscribeToSession has the same body.
closeEventSource(net, c) ==
  IF net.field[c] # 0
    THEN [field |-> [net.field EXCEPT ![c] = 0],
          open |-> {s \in net.open : s.id # net.field[c]}]
    ELSE net

\* if (unsubscribe) { unsubscribe(); }
CallUnsubscribe(net) ==
  IF unsubscribe # 0 THEN closeEventSource(net, unsubscribe) ELSE net

\* if (this.eventSource) { this.eventSource.close(); }
ClosePrevious(net, c) ==
  IF net.field[c] # 0 THEN {s \in net.open : s.id # net.field[c]} ELSE net.open

FreeSourceIds(net, c) ==
  {d \in SourceIds : /\ \A s \in ClosePrevious(net, c) : s.id # d
                     /\ \A o \in ClientIds \ {c} : net.field[o] # d}

\* subscribeToSession(sessionId, callback) of client c: the EventSource is
\* opened on `${this.baseURL}/event`; sessionId is not used.
subscribeToSession(net, c, sessionId) ==
  LET d == CHOOSE x \in FreeSourceIds(net, c) : \A y \in FreeSourceIds(net, c) : x <= y
  IN  [field |-> [net.field EXCEPT ![c] = d],
       open |-> ClosePrevious(net, c) \cup {[id |-> d, client |-> c, sessionId |-> sessionId]}]

\* currentMessages = messages; timeline.render(messages);
\* renderModifications(messages)
ShowMessages(messages) ==
  /\ currentMessages' = messages
  /\ TimelineRender(messages)
  /\ currentPatches' = extractDiffsFromMessages(messages)

Task(sessionId, at) == [sessionId |-> sessionId, at |-> at]

\* A request of reloadCurrentSession, made for the session that is selected
\* at that moment (for "null" when none is).
ReloadTask(at) == Task(currentSessionId, at)

One(t) == SetToBag({t})

\* loadSession(sessionId) up to its first await.
LoadSession(sessionId) ==
  /\ currentSessionId # sessionId
  /\ BagCardinality(loads) < MaxInFlight
  /\ currentSessionId' = sessionId
  /\ LET net == CallUnsubscribe(Net)
     IN  /\ eventSource' = net.field
         /\ openSources' = net.open
  /\ unsubscribe' = 0
  /\ loads' = loads (+) One(Task(sessionId, "getSession"))
  /\ loadCompleted' = FALSE
  /\ UNCHANGED <<diffVars, viewVars, client, reloadTimeout, timers, reloads, delivered, timersSet, reloadCalls>>

\* client.getSession answers with a session: loadSession goes on to
\* client.getSessionMessages.
LoadGetSessionDone(t) ==
  /\ t.at = "getSession"
  /\ loads' = (loads (-) One(t)) (+) One(Task(t.sessionId, "getSessionMessages"))
  /\ UNCHANGED <<diffVars, viewVars, client, eventSource, openSources, currentSessionId, unsubscribe,
                 reloadTimeout, timers, reloads, delivered, timersSet, reloadCalls, loadCompleted>>

\* The messages arrive: displaySession, then client.subscribeToSession on
\* the client of that moment.
LoadMessagesDone(t, messages) ==
  /\ t.at = "getSessionMessages"
  /\ FreeSourceIds(Net, client) # {}
  /\ ShowMessages(messages)
  /\ LET net == subscribeToSession(Net, client, t.sessionId)
     IN  /\ eventSource' = net.field
         /\ openSources' = net.open
  /\ unsubscribe' = client
  /\ loads' = loads (-) One(t)
  /\ loadCompleted' = (loadCompleted \/ t.sessionId = currentSessionId)
  /\ UNCHANGED <<diffVars, apiMessages, call, client, currentSessionId, reloadTimeout, timers,
                 reloads, delivered, timersSet, reloadCalls>>

\* A request of loadSession fails, or there is no session: the catch block.
LoadFails(t) ==
  /\ loads' = loads (-) One(t)
  /\ UNCHANGED <<diffVars, viewVars, client, eventSource, openSources, currentSessionId, unsubscribe,
                 reloadTimeout, timers, reloads, delivered, timersSet, reloadCalls, loadCompleted>>

SchedulesUnguarded(event) ==
  event.type = "session.updated" /\ currentSessionId # NoSession

\* handleSessionEvent and scheduleReload: whether setTimeout is called.
Schedules(event) ==
  event.type = "session.updated" /\ currentSessionId # NoSession /\ ~reloadTimeout

\* onmessage of an open EventSource: callback(data), that is
\* handleSessionEvent(event).
OnMessage(src, event) ==
  /\ Schedules(event) => timersSet < MaxTimers
  /\ IF Schedules(event)
       THEN /\ reloadTimeout' = TRUE
            /\ timers' = timers + 1
            /\ timersSet' = timersSet + 1
       ELSE UNCHANGED <<reloadTimeout, timers, timersSet>>
  /\ delivered' = [relevant |-> (event.type = "session.updated" /\ currentSessionId # NoSession),
                   own |-> event.sessionID \in {src.sessionId, currentSessionId},
                   scheduled |-> Schedules(event)]
  /\ UNCHANGED <<diffVars, viewVars, client, eventSource, openSources, currentSessionId, unsubscribe,
                 loads, reloads, reloadCalls, loadCompleted>>

\* The timer callback: reloadTimeout = null; reloadCurrentSession() up to
\* its first await.
TimerFires ==
  /\ timers > 0
  /\ timers' = timers - 1
  /\ reloadTimeout' = FALSE
  /\ reloadCalls' = reloadCalls + 1
  /\ reloads' = IF currentSessionId = NoSession THEN reloads
                ELSE reloads (+) One(ReloadTask("getSession"))
  /\ UNCHANGED <<diffVars, viewVars, client, eventSource, openSources, currentSessionId, unsubscribe,
                 loads, delivered, timersSet, loadCompleted>>

\* client.getSession answers: reloadCurrentSession asks for the messages of
\* the session selected now.
ReloadGetSessionDone(t) ==
  /\ t.at = "getSession"
  /\ reloads' = (reloads (-) One(t)) (+) One(ReloadTask("getSessionMessages"))
  /\ UNCHANGED <<diffVars, viewVars, client, eventSource, openSources, currentSessionId, unsubscribe,
                 reloadTimeout, timers, loads, delivered, timersSet, reloadCalls, loadCompleted>>

\* The messages arrive (there are none for the session "null").
ReloadMessagesDone(t, messages) ==
  /\ t.at = "getSessionMessages"
  /\ t.sessionId # NoSession
  /\ ShowMessages(messages)
  /\ reloads' = reloads (-) One(t)
  /\ UNCHANGED <<diffVars, apiMessages, call, client, eventSource, openSources, currentSessionId,
                 unsubscribe, reloadTimeout, timers, loads, delivered, timersSet, reloadCalls, loadCompleted>>

\* A request of reloadCurrentSession fails: the catch block.
ReloadFails(t) ==
  /\ reloads' = reloads (-) One(t)
  /\ UNCHANGED <<diffVars, viewVars, client, eventSource, openSources, currentSessionId, unsubscribe,
                 reloadTimeout, timers, loads, delivered, timersSet, reloadCalls, loadCompleted>>

NewClient == CHOOSE c \in ClientIds : c # client

\* saveSettings with a non-empty URL; new OpencodeClient(API_URL) starts
\* with this.eventSource = null.
SaveSettings ==
  /\ LET net == closeEventSource(CallUnsubscribe(Net), client)
     IN  /\ eventSource' = [net.field EXCEPT ![NewClient] = 0]
         /\ openSources' = net.open
  /\ unsubscribe' = 0
  /\ client' = NewClient
  /\ currentSessionId' = NoSession
  /\ loadCompleted' = FALSE
  /\ UNCHANGED <<diffVars, viewVars, reloadTimeout, timers, loads, reloads, delivered, timersSet, reloadCalls>>

SessionInit == DiffIdle /\ pc = "idle" /\ AppIdle

SessionNext ==
  \/ \E sessionId \in Sessions : LoadSession(sessionId)
  \/ \E t \in BagToSet(loads) : LoadGetSessionDone(t)
  \/ \E t \in BagToSet(loads) : \E messages \in ApiResponses(t.sessionId) : LoadMessagesDone(t, messages)
  \/ \E t \in BagToSet(loads) : LoadFails(t)
  \/ \E src \in openSources, event \in Events : OnMessage(src, event)
  \/ TimerFires
  \/ \E t \in BagToSet(reloads) : ReloadGetSessionDone(t)
  \/ \E t \in BagToSet(reloads) : \E messages \in ApiResponses(t.sessionId) : ReloadMessagesDone(t, messages)
  \/ \E t \in BagToSet(reloads) : ReloadFails(t)
  \/ SaveSettings

SessionSpec == SessionInit /\ [][SessionNext]_vars

\* The browser runs a timer that is due.
FairSessionSpec == SessionSpec /\ WF_vars(TimerFires)

(***************************************************************************)
(* Properties of the returned diff.                                        *)
(***************************************************************************)

Done == pc = "done"

IsAdded(op) == op.type = "added"
IsDeleted(op) == op.type = "deleted"
IsEqual(op) == op.type = "equal"
NotAdded(op) == ~IsAdded(op)
NotDeleted(op) == ~IsDeleted(op)
NotEqual(op) == ~IsEqual(op)
HasOld(op) == "oldLineNum" \in DOMAIN op
HasNew(op) == "newLineNum" \in DOMAIN op

Texts(ops) == [k \in 1..Len(ops) |-> ops[k].line]
OldNums(ops) == [k \in 1..Len(ops) |-> ops[k].oldLineNum]
NewNums(ops) == [k \in 1..Len(ops) |-> ops[k].newLineNum]

Kinds(ops) == {ops[k].type : k \in 1..Len(ops)}

\* Reference longest-common-subsequence length, by enumeration: the largest
\* set of positions of b whose lines, in order, form a subsequence of a.
RECURSIVE IsSubseq(_, _)
IsSubseq(s, t) ==
  IF s = <<>> THEN TRUE
  ELSE IF t = <<>> THEN FALSE
  ELSE IF Head(s) = Head(t) THEN IsSubseq(Tail(s), Tail(t))
  ELSE IsSubseq(s, Tail(t))

RECURSIVE Pick(_, _, _)
Pick(b, S, k) ==
  IF k > Len(b) THEN <<>>
  ELSE IF k \in S THEN <<b[k]>> \o Pick(b, S, k + 1)
  ELSE Pick(b, S, k + 1)

LCSLength(b, a) ==
  LET sizes == {Cardinality(S) : S \in {T \in SUBSET (1..Len(b)) : IsSubseq(Pick(b, T, 1), a)}}
  IN  CHOOSE k \in sizes : \A l \in sizes : l <= k

\* C1: the ops that are not Added, in output order, spell beforeLines exactly,
\* and the ops that are not Deleted, in output order, spell afterLines exactly.
C1_Reconstructs ==
  Done => /\ Texts(SelectSeq(diff, NotAdded)) = beforeLines
          /\ Texts(SelectSeq(diff, NotDeleted)) = afterLines

C1_Witness ==
  /\ Done
  /\ Kinds(diff) = {"equal", "added", "deleted"}
  /\ m >= 2
  /\ n >= 2

\* C2: the number of non-Equal ops is m + n - 2*L and the number of Equal ops
\* is L, where L is the reference LCS length of the two inputs.
C2_Minimal ==
  Done => LET L == LCSLength(beforeLines, afterLines)
          IN  /\ Len(SelectSeq(diff, NotEqual)) = m + n - 2 * L
              /\ Len(SelectSeq(diff, IsEqual)) = L

C2_Witness ==
  /\ Done
  /\ LCSLength(beforeLines, afterLines) >= 1
  /\ LCSLength(beforeLines, afterLines) < m
  /\ LCSLength(beforeLines, afterLines) < n
  /\ Len(SelectSeq(diff, IsEqual)) >= 1

IsXvsXX == beforeLines = <<"x">> /\ afterLines = <<"x", "x">>

\* C3 as stated: diff(["x"], ["x","x"]) = [Equal("x",1,1), Added("x",new=2)].
C3_AsStated ==
  (Done /\ IsXvsXX) =>
    diff = << [type |-> "equal", line |-> "x", oldLineNum |-> 1, newLineNum |-> 1],
              [type |-> "added", line |-> "x", newLineNum |-> 2] >>

\* C3 amended: diff(["x"], ["x","x"]) = [Added("x",new=1), Equal("x",old=1,new=2)]:
\* the backtracking starts at the end, so the last "x" is the one kept.
C3_TieBreakExample ==
  (Done /\ IsXvsXX) =>
    diff = << [type |-> "added", line |-> "x", newLineNum |-> 1],
              [type |-> "equal", line |-> "x", oldLineNum |-> 1, newLineNum |-> 2] >>

C3_Witness == Done /\ IsXvsXX /\ Len(diff) = 2

\* Reference table and backtracking for C4: RefDp(r, c) is the reference LCS
\* length of the first r lines of b and the first c lines of a; RefDiff
\* builds the forward sequence with the stated rule at a non-matching cell.
RefDp(b, a, r, c) == LCSLength(SubSeq(b, 1, r), SubSeq(a, 1, c))

RECURSIVE RefDiff(_, _, _, _)
RefDiff(b, a, r, c) ==
  IF r = 0 /\ c = 0 THEN <<>>
  ELSE IF r > 0 /\ c > 0 /\ b[r] = a[c]
    THEN Append(RefDiff(b, a, r - 1, c - 1),
                [type |-> "equal", line |-> b[r], oldLineNum |-> r, newLineNum |-> c])
  ELSE IF c > 0 /\ (r = 0 \/ RefDp(b, a, r, c - 1) >= RefDp(b, a, r - 1, c))
    THEN Append(RefDiff(b, a, r, c - 1), [type |-> "added", line |-> a[c], newLineNum |-> c])
  ELSE Append(RefDiff(b, a, r - 1, c), [type |-> "deleted", line |-> b[r], oldLineNum |-> r])

\* A backtracking cell with both indices positive, lines that differ, and the
\* same dp value to the left and above.
AtTie ==
  /\ pc = "backtrack"
  /\ i > 0
  /\ j > 0
  /\ beforeLines[i] # afterLines[j]
  /\ dp[i][j - 1] = dp[i - 1][j]

\* C4: the returned diff equals the reference backtracking (Added and j-1
\* whenever j > 0 and (i = 0 or dp[i][j-1] >= dp[i-1][j]), Deleted otherwise),
\* and the step taken from a tie cell is always the horizontal, Added one.
C4_TieBreakHorizontal ==
  /\ [](Done => diff = RefDiff(beforeLines, afterLines, m, n))
  /\ [][AtTie => /\ i' = i
                 /\ j' = j - 1
                 /\ lcs' = Append(lcs, [type |-> "added", line |-> afterLines[j], newLineNum |-> j])]_vars

\* The state right after the Added step out of a tie cell (i, j + 1).
C4_Witness ==
  /\ pc = "backtrack"
  /\ i > 0
  /\ j + 1 <= n
  /\ beforeLines[i] # afterLines[j + 1]
  /\ dp[i][j] = dp[i - 1][j + 1]
  /\ dp[i][j] >= 1
  /\ lcs # <<>>
  /\ lcs[Len(lcs)] = [type |-> "added", line |-> afterLines[j + 1], newLineNum |-> j + 1]

\* C5: in the returned diff, between two ops with no Equal op between them a
\* Deleted op never comes after an Added op; and no input line is reported
\* twice: every line of beforeLines is carried by exactly one op, which is
\* Equal or Deleted, every line of afterLines by exactly one op, which is
\* Equal or Added, so no line is the subject of both an Added and a Deleted op.
SameRun(k, l) == \A q \in k..l : ~IsEqual(diff[q])

C5_DeletedBeforeAdded ==
  Done =>
    /\ \A k, l \in 1..Len(diff) :
         (k < l /\ SameRun(k, l)) => ~(IsAdded(diff[k]) /\ IsDeleted(diff[l]))
    /\ \A k \in 1..Len(diff) - 1 : ~(IsAdded(diff[k]) /\ IsDeleted(diff[k + 1]))
    /\ \A r \in 1..m :
         /\ Cardinality({k \in 1..Len(diff) : HasOld(diff[k]) /\ diff[k].oldLineNum = r}) = 1
         /\ \A k \in 1..Len(diff) :
              (HasOld(diff[k]) /\ diff[k].oldLineNum = r) => ~IsAdded(diff[k])
    /\ \A c \in 1..n :
         /\ Cardinality({k \in 1..Len(diff) : HasNew(diff[k]) /\ diff[k].newLineNum = c}) = 1
         /\ \A k \in 1..Len(diff) :
              (HasNew(diff[k]) /\ diff[k].newLineNum = c) => ~IsDeleted(diff[k])

C5_Witness ==
  /\ Done
  /\ \E k \in 1..Len(diff) - 2 :
       /\ IsDeleted(diff[k])
       /\ IsAdded(diff[k + 1])
       /\ IsEqual(diff[k + 2])

\* C6: computeLineDiff(X, X) is Len(X) Equal ops, the k-th (1-based) carrying
\* X[k] with oldLineNum = newLineNum = k.
C6_Identity ==
  (Done /\ beforeLines = afterLines) =>
    diff = [k \in 1..m |-> [type |-> "equal", line |-> beforeLines[k],
                            oldLineNum |-> k, newLineNum |-> k]]

C6_Witness ==
  /\ Done
  /\ beforeLines = afterLines
  /\ m >= 3
  /\ beforeLines[1] = beforeLines[3]
  /\ beforeLines[1] # beforeLines[2]
  /\ Len(diff) = m

\* C7: with beforeLines empty the diff is n Added ops, the k-th carrying
\* afterLines[k] and newLineNum = k.
C7_PureAddition ==
  (Done /\ beforeLines = <<>>) =>
    diff = [k \in 1..n |-> [type |-> "added", line |-> afterLines[k], newLineNum |-> k]]

C7_Witness ==
  /\ Done
  /\ beforeLines = <<>>
  /\ afterLines = <<"a", "b">>
  /\ Len(diff) = 2

\* C8: with afterLines empty the diff is m Deleted ops, the k-th carrying
\* beforeLines[k] and oldLineNum = k.
C8_PureDeletion ==
  (Done /\ afterLines = <<>>) =>
    diff = [k \in 1..m |-> [type |-> "deleted", line |-> beforeLines[k], oldLineNum |-> k]]

C8_Witness ==
  /\ Done
  /\ afterLines = <<>>
  /\ beforeLines = <<"a", "b">>
  /\ Len(diff) = 2

\* C9: for two distinct single lines a and b, computeLineDiff([a], [b]) is
\* Deleted(a, old=1) followed by Added(b, new=1).
C9_SingleLineChange ==
  (Done /\ m = 1 /\ n = 1 /\ beforeLines[1] # afterLines[1]) =>
    diff = << [type |-> "deleted", line |-> beforeLines[1], oldLineNum |-> 1],
              [type |-> "added", line |-> afterLines[1], newLineNum |-> 1] >>

C9_Witness ==
  /\ Done
  /\ m = 1
  /\ n = 1
  /\ beforeLines[1] # afterLines[1]
  /\ Len(diff) = 2

\* C10: the oldLineNum values of the ops that carry one are, in output order,
\* 1, 2, .., m and the newLineNum values of the ops that carry one are, in
\* output order, 1, 2, .., n (hence strictly increasing).
StrictlyIncreasing(s) == \A k \in 1..Len(s) - 1 : s[k] < s[k + 1]

C10_LineNumbersMonotonic ==
  Done =>
    LET olds == OldNums(SelectSeq(diff, HasOld))
        news == NewNums(SelectSeq(diff, HasNew))
    IN  /\ StrictlyIncreasing(olds)
        /\ StrictlyIncreasing(news)
        /\ olds = [k \in 1..m |-> k]
        /\ news = [k \in 1..n |-> k]

C10_Witness ==
  /\ Done
  /\ m >= 2
  /\ n >= 2
  /\ \E k \in 1..Len(diff) : IsEqual(diff[k]) /\ diff[k].oldLineNum # diff[k].newLineNum
  /\ \E k \in 1..Len(diff) : IsDeleted(diff[k])
  /\ \E k \in 1..Len(diff) : IsAdded(diff[k])

\* C11: an op carries oldLineNum exactly when it is Equal or Deleted and
\* newLineNum exactly when it is Equal or Added; a carried number is a valid
\* 1-based index and the op's text is the line at that index.
C11_LineNumberPresence ==
  Done =>
    \A k \in 1..Len(diff) :
      LET op == diff[k]
      IN  /\ op.type \in {"equal", "added", "deleted"}
          /\ HasOld(op) <=> (IsEqual(op) \/ IsDeleted(op))
          /\ HasNew(op) <=> (IsEqual(op) \/ IsAdded(op))
          /\ HasOld(op) => (op.oldLineNum \in 1..m /\ op.line = beforeLines[op.oldLineNum])
          /\ HasNew(op) => (op.newLineNum \in 1..n /\ op.line = afterLines[op.newLineNum])

C11_Witness ==
  /\ Done
  /\ Kinds(diff) = {"equal", "added", "deleted"}
  /\ \E k \in 1..Len(diff) : IsDeleted(diff[k]) /\ diff[k].oldLineNum >= 2
  /\ \E k \in 1..Len(diff) : IsAdded(diff[k]) /\ diff[k].newLineNum >= 2

\* The loop condition of the backtracking loop.
InLoop == pc = "backtrack" /\ (i > 0 \/ j > 0)

\* C12: computeLineDiff is total. Every index used is in range (fill: cell
\* (fi, fj) and its three neighbours; backtracking: lines i, j and the cells
\* left of and above (i, j)), every iteration of the backtracking loop takes
\* one of its three branches and strictly decreases i + j, the call returns,
\* and it returns with i = j = 0.
C12_Total ==
  /\ [](pc = "fill" => (fi \in 1..m + 1 /\ fj \in 1..n + 1))
  /\ [](pc = "backtrack" => (i \in 0..m /\ j \in 0..n))
  /\ []((InLoop /\ ~TakesEqual /\ ~TakesAdded) => TakesDeleted)
  /\ [][InLoop => (i' + j' < i + j /\ i' >= 0 /\ j' >= 0)]_vars
  /\ [](Done => (i = 0 /\ j = 0 /\ Len(diff) = Len(lcs)))
  /\ <>Done

\* A call on lines that are empty or repeated has returned after taking all
\* three branches.
C12_Witness ==
  /\ Done
  /\ m = MaxLen
  /\ n >= 2
  /\ Kinds(diff) = {"equal", "added", "deleted"}
  /\ \E k \in 1..m - 1 : beforeLines[k] = beforeLines[k + 1]

(***************************************************************************)
(* Properties of the extraction and of the diff toggle.                    *)
(***************************************************************************)

\* displaySession has run on the messages of the server.
Displayed == currentMessages # <<>> /\ currentMessages = apiMessages

\* All (message position, part position) pairs of the displayed messages.
PartRefs ==
  UNION {{<<mp, pp>> : pp \in 1..Len(currentMessages[mp].parts)} : mp \in 1..Len(currentMessages)}

PartAt(ref) == currentMessages[ref[1]].parts[ref[2]]

IsToolRecord(ref) == PartAt(ref).type = "tool"
OldPresent(ref) == PartAt(ref).oldString # Undefined
NewPresent(ref) == PartAt(ref).newString # Undefined
OldNonEmpty(ref) == OldPresent(ref) /\ Len(PartAt(ref).oldString) > 0
NewNonEmpty(ref) == NewPresent(ref) /\ Len(PartAt(ref).newString) > 0

\* The diff containers of the timeline, as (message position, child position).
ContainerRefs ==
  UNION {{<<mp, cp>> : cp \in {q \in 1..Len(timelineDom[mp].children) :
                                 timelineDom[mp].children[q].cls = "timeline-diff-inline"}} :
         mp \in 1..Len(timelineDom)}

ContainerAt(ref) == timelineDom[ref[1]].children[ref[2]]

\* The record a container's diff was computed from.
SourceOf(ref) == <<FindMessage(timelineDom[ref[1]].messageId), ContainerAt(ref).source + 1>>

AllOps(ops, kind) == \A k \in 1..Len(ops) : ops[k].type = kind

\* C13 as stated: the diff shown for a record with only newString consists of
\* Added ops only, and with only oldString of Deleted ops only.
C13_OneSidedDiff ==
  \A c \in ContainerRefs :
    /\ (~OldPresent(SourceOf(c)) /\ NewPresent(SourceOf(c))) => AllOps(ContainerAt(c).ops, "added")
    /\ (OldPresent(SourceOf(c)) /\ ~NewPresent(SourceOf(c))) => AllOps(ContainerAt(c).ops, "deleted")

Neither(r) == IsToolRecord(r) /\ ~OldPresent(r) /\ ~NewPresent(r)

C16_FilediffExtracted ==
  Displayed =>
    Len(currentPatches) >=
      Cardinality({r \in PartRefs : IsToolRecord(r) /\ (PartAt(r).filediff \/ OldNonEmpty(r) \/ NewNonEmpty(r))})

(***************************************************************************)
(* Properties of the renderer.                                             *)
(***************************************************************************)

NoDuplicateMessage ==
  \A a, b \in 1..Len(timelineDom) : a # b => timelineDom[a].messageId # timelineDom[b].messageId

\* A call of updateIncremental whose messages all have no parts or an id
\* that is rendered already.
NothingNew(messages) ==
  \/ IsNoArray(messages)
  \/ \A k \in 1..Len(messages) :
       messages[k].parts = <<>> \/ messages[k].id \in renderedMessageIds

C17_OnlyOwnSessionEvents ==
  delivered.scheduled => delivered.own

\* Everything of the page except the log of the last delivered event.
exceptDelivered ==
  <<diffVars, viewVars, client, eventSource, openSources, currentSessionId, unsubscribe,
    reloadTimeout, timers, loads, reloads, timersSet, reloadCalls, loadCompleted>>

\* C19: at most one reload timer is pending and reloadTimeout holds it; a
\* session.updated event that arrives while the timer is pending sets no
\* timer; every timer set calls reloadCurrentSession once, neither more nor
\* less, and does so eventually; an event of another type, or one that
\* arrives while no session is selected, sets no timer and changes nothing.
C19_ReloadsBatched ==
  /\ [](timers <= 1 /\ (reloadTimeout <=> timers = 1))
  /\ [](timersSet = reloadCalls + timers)
  /\ [](~delivered.relevant => ~delivered.scheduled)
  /\ [][(delivered' # delivered /\ reloadTimeout) => timers' = timers]_vars
  /\ [][(delivered' # delivered /\ ~delivered'.relevant) => UNCHANGED exceptDelivered]_vars
  /\ (timers = 1) ~> (timers = 0)

\* One timer has fired and called reloadCurrentSession, which waits at an
\* await; a second timer is pending, and a session.updated event has arrived
\* while it was pending.
C19_Witness ==
  /\ timersSet = 2
  /\ reloadCalls = 1
  /\ timers = 1
  /\ BagCardinality(reloads) = 1
  /\ delivered.relevant
  /\ ~delivered.scheduled

\* C20: at most one EventSource is open, and once a loadSession of the
\* selected session has completed, no EventSource subscribed for a session
\* selected before is open.
C20_SingleSubscription ==
  /\ Cardinality(openSources) <= 1
  /\ loadCompleted => \A src \in openSources : src.sessionId = currentSessionId

(***************************************************************************)
(* Properties of repeated clicks on the diff toggle buttons.               *)
(***************************************************************************)

\* The positions of the diff containers with id diffId among the children.
ContainersOf(children, diffId) ==
  {cp \in 1..Len(children) :
     children[cp].cls = "timeline-diff-inline" /\ children[cp].patchIndex = diffId}

\* The diff containers of a timeline, each with its message position.
ContainersIn(dom) ==
  UNION {{<<mp, cp>> : cp \in {q \in 1..Len(dom[mp].children) :
                                 dom[mp].children[q].cls = "timeline-diff-inline"}} :
         mp \in 1..Len(dom)}

\* The ids a diff container can carry: the msgIndex of a button.
DiffIds == 0..2

\* C21: a message element never holds two diff containers with one diff id;
\* computeLineDiff is called only by a click that finds no container with
\* its diff id; and while a container stays in the timeline (no re-render),
\* a click leaves it in place with the same ops and only flips its hidden
\* state, without calling computeLineDiff.
C21_ComputedOnceThenToggled ==
  /\ [](\A mp \in 1..Len(timelineDom) : \A d \in DiffIds :
          Cardinality(ContainersOf(timelineDom[mp].children, d)) <= 1)
  /\ [][(pc = "idle" /\ pc' = "fill")
          => ContainersOf(timelineDom[call'.msgPos].children, call'.diffId) = {}]_vars
  /\ [][(ContainersIn(timelineDom) # {} /\ ContainersIn(timelineDom') # {})
          => /\ ContainersIn(timelineDom') = ContainersIn(timelineDom)
             /\ UNCHANGED <<diffVars, call>>
             /\ \A ref \in ContainersIn(timelineDom) :
                  timelineDom'[ref[1]].children[ref[2]] =
                    [timelineDom[ref[1]].children[ref[2]] EXCEPT !.hidden = ~@]]_vars

\* A container whose ops were computed has been hidden by a later click.
C21_Witness ==
  \E ref \in ContainerRefs :
    /\ ContainerAt(ref).available
    /\ ContainerAt(ref).hidden

\* The .part-tool element rendered for the part with the given
\* data-part-index, as a position among the children; 0 if there is none.
PartToolOf(children, partIndex) ==
  LET found == SelectSeq(Indices(children),
                 LAMBDA k : children[k].cls = "part-tool" /\ children[k].partIndex = partIndex)
  IN  IF found = <<>> THEN 0 ELSE found[1]

\* C22: every diff container was computed from the part whose button was
\* clicked and stands directly after that part's own .part-tool element.
C22_OwnDiffAfterOwnPart ==
  \A c \in ContainerRefs :
    /\ ContainerAt(c).source = ContainerAt(c).button
    /\ c[2] = PartToolOf(timelineDom[c[1]].children, ContainerAt(c).button) + 1

\* How many ops of the given kind a line diff has.
CountOps(ops, kind) == Cardinality({k \in 1..Len(ops) : ops[k].type = kind})

\* C23: the '+additions / -deletions' counts in the header of a diff
\* container equal the numbers of Added and of Deleted ops rendered in it.
C23_HeaderCountsMatchOps ==
  \A c \in ContainerRefs :
    ContainerAt(c).available =>
      /\ ContainerAt(c).additions = CountOps(ContainerAt(c).ops, "added")
      /\ ContainerAt(c).deletions = CountOps(ContainerAt(c).ops, "deleted")

\* The toggle buttons of the timeline, as (message position, child position).
ButtonRefs ==
  UNION {{<<mp, cp>> : cp \in {q \in 1..Len(timelineDom[mp].children) :
                                 /\ timelineDom[mp].children[q].cls = "part-tool"
                                 /\ timelineDom[mp].children[q].toggle}} :
         mp \in 1..Len(timelineDom)}

\* A diff container with the button's diff id is in the button's message and
\* is not hidden.
DiffVisibleFor(b) ==
  \E cp \in ContainersOf(timelineDom[b[1]].children, timelineDom[b[1]].children[b[2]].msgIndex) :
    ~timelineDom[b[1]].children[cp].hidden

\* The diff container that the button's click created is in the button's
\* message and is not hidden.
OwnDiffVisibleFor(b) ==
  \E cp \in ContainersOf(timelineDom[b[1]].children, timelineDom[b[1]].children[b[2]].msgIndex) :
    /\ ~timelineDom[b[1]].children[cp].hidden
    /\ timelineDom[b[1]].children[cp].button = timelineDom[b[1]].children[b[2]].partIndex

\* C26: a toggle button has the class 'expanded' exactly when a diff
\* container for it is in its message and is not hidden: an expanded button
\* has a visible container with its diff id, and the button whose click
\* created a visible container is expanded.
C26_ExpandedIffVisible ==
  \A b \in ButtonRefs :
    /\ timelineDom[b[1]].children[b[2]].expanded => DiffVisibleFor(b)
    /\ OwnDiffVisibleFor(b) => timelineDom[b[1]].children[b[2]].expanded

(***************************************************************************)
(* Properties of what is displayed for the selected session.               *)
(***************************************************************************)

\* No loadSession and no reloadCurrentSession waits for an answer.
NoFetchInFlight == BagToSet(loads) = {} /\ BagToSet(reloads) = {}

\* The timeline and currentMessages hold the messages of the session.
Shows(sessionId) ==
  /\ currentMessages \in ApiResponses(sessionId)
  /\ Len(timelineDom) = Len(currentMessages)
  /\ \A k \in 1..Len(timelineDom) : timelineDom[k].messageId = currentMessages[k].id

\* C24: when a loadSession of the selected session has completed and no
\* fetch is in flight, the timeline and currentMessages show the messages of
\* currentSessionId.
C24_DisplayedIsSelected ==
  (loadCompleted /\ NoFetchInFlight) => Shows(currentSessionId)

(***************************************************************************)
(* Properties of renderedMessageIds and of data-msg-index.                 *)
(***************************************************************************)

\* The ids of the message elements in the container.
ContainerMessageIds == {timelineDom[k].messageId : k \in 1..Len(timelineDom)}

\* C25: renderedMessageIds holds only ids of message elements that are in
\* the container; it is empty whenever the container shows the empty state.
C25_RenderedIdsArePresent ==
  /\ renderedMessageIds \subseteq ContainerMessageIds
  /\ timelineDom = <<>> => renderedMessageIds = {}

\* C27: the data-msg-index of a tool part is the position (0-based) of its
\* message element among the message elements of the container.
C27_MsgIndexIsPosition ==
  \A mp \in 1..Len(timelineDom) : \A cp \in 1..Len(timelineDom[mp].children) :
    timelineDom[mp].children[cp].cls = "part-tool"
      => timelineDom[mp].children[cp].msgIndex = mp - 1

====
